---- MODULE Spec2Model ----
(***************************************************************************)
(* Model of function_app.py: the HTTP-triggered function httpalmaanalytics *)
(* and its helpers set_payload, make_api_call, get_soup, get_columns and   *)
(* get_rows.                                                               *)
(*                                                                         *)
(* Strings are sequences of fragments (a fragment is a character or a      *)
(* literal piece of text), so that concatenation is \o and "x in s" is a   *)
(* contiguous-subsequence test.  Python's None is the marker None.         *)
(***************************************************************************)
EXTENDS Integers, Sequences, FiniteSets, TLC

\* ------------------------------------------------------------------ bounds
MaxErrors == 2
MaxTokens == 1
MaxCols == 2
MaxRows == 2
MaxKids == 2

\* ----------------------------------------------------------------- strings
None == <<"<None>">>
NoField == <<"<no such key>">>
EmptyStr == <<>>

RECURSIVE SeqsUpTo(_, _)
SeqsUpTo(S, n) ==
    IF n = 0 THEN {<<>>}
    ELSE LET shorter == SeqsUpTo(S, n - 1)
         IN shorter \cup {Append(s, x) : s \in {t \in shorter : Len(t) = n - 1}, x \in S}

\* Python truthiness of a value read from the JSON body: None and "" are falsy.
Falsy(v) == v \in {None, EmptyStr}

\* Python "sub in s" on strings.
Contains(s, sub) ==
    \E i \in 0..(Len(s) - Len(sub)) : \A k \in 1..Len(sub) : s[i + k] = sub[k]

\* ----------------------------------------------------------- request bodies
IZ_AU == <<"A", "U">>
IZ_ZZ == <<"Z", "Z">>
AN_LOANS == <<"L", "o", "a", "n", "s">>
AN_NOPE == <<"N", "o", "p", "e">>
RESUME_TOK == <<"t", "1">>

FieldNames == {"iz", "analysis", "resume"}

\* What req.get_json() can give: a ValueError, a JSON value that is not an
\* object (array, string, number, null), or an object.
ObjectBodies ==
    {[kind |-> "object", fields |-> [iz |-> i, analysis |-> a, resume |-> r]] :
        i \in {NoField, EmptyStr, IZ_AU, IZ_ZZ},
        a \in {NoField, None, AN_LOANS, AN_NOPE},
        r \in {NoField, EmptyStr, RESUME_TOK}}

NoFields == [iz |-> NoField, analysis |-> NoField, resume |-> NoField]

Bodies ==
    {[kind |-> "not_json", fields |-> NoFields], [kind |-> "non_object", fields |-> NoFields]}
        \cup ObjectBodies

\* dict.get(key): the value, or None when the key is missing.
Get(body, key) == IF body.fields[key] = NoField THEN None ELSE body.fields[key]

\* "key in dict"
HasField(body, key) == body.fields[key] # NoField

\* --------------------------------------------------------- configuration store
AREA_NAME == <<"analytics">>
REPORT_PATH == <<"/", "s", "h", ":", "%", " ", "r">>
API_KEY == <<"l", "8", "x">>

Stores ==
    [areas : SUBSET {AREA_NAME},
     izs : SUBSET {IZ_AU},
     analyses : SUBSET {AN_LOANS},
     izanalysis : [{<<IZ_AU, AN_LOANS>>} -> {None, REPORT_PATH}],
     apikeys : [{<<AREA_NAME, IZ_AU>>} -> {None, API_KEY}]]

VARIABLES pc, store, req, lookups, payload, calls, response, soup, columns, rows, resp, steps

vars == <<pc, store, req, lookups, payload, calls, response, soup, columns, rows, resp, steps>>

get_area_by_name(name) == IF name \in store.areas THEN name ELSE None

get_iz_by_code(code) == IF code \in store.izs THEN code ELSE None

get_analysis_by_name(name) == IF name \in store.analyses THEN name ELSE None

get_iz_analysis_by_iz_and_analysis(iz, analysis) ==
    IF <<iz, analysis>> \in DOMAIN store.izanalysis
    THEN store.izanalysis[<<iz, analysis>>] ELSE None

get_api_key_by_area_and_iz(area, iz) ==
    IF <<area, iz>> \in DOMAIN store.apikeys THEN store.apikeys[<<area, iz>>] ELSE None

\* ------------------------------------------------------------------ responses
NoJson == [status |-> "none", data |-> [resume |-> None, rows |-> <<>>]]
NoResp == [status |-> 0, body |-> <<>>, json |-> NoJson]

HttpResponse(text, code) == [status |-> code, body |-> text, json |-> NoJson]

\* ------------------------------------------------------------- payload builder
AlwaysSafe == {"s", "h", "r", "l", "8", "x", "t", "1"}

\* urllib.parse.quote_plus of one character with safe=':%'.
QuoteChar(c) ==
    IF c \in AlwaysSafe \cup {":", "%"} THEN <<c>>
    ELSE IF c = " " THEN <<"+">>
    ELSE IF c = "/" THEN <<"%", "2", "F">>
    ELSE IF c = "&" THEN <<"%", "2", "6">>
    ELSE <<"%", "3", "D">>

RECURSIVE quote_plus(_)
quote_plus(s) == IF s = <<>> THEN <<>> ELSE QuoteChar(Head(s)) \o quote_plus(Tail(s))

\* urllib.parse.urlencode of the four fixed parameters, in dict order.
urlencode(path, apikey) ==
    <<"path", "=">> \o quote_plus(path)
        \o <<"&", "apikey", "=">> \o quote_plus(apikey)
        \o <<"&", "limit", "=", "1", "0", "0", "0">>
        \o <<"&", "col_names", "=", "true">>

with_token_if_present(encoded, resume) ==
    IF resume # None THEN encoded \o <<"&", "token", "=">> \o resume ELSE encoded

\* if resume: payload += f"&token={resume}"
with_token(encoded, resume) ==
    IF ~Falsy(resume) THEN encoded \o <<"&", "token", "=">> \o resume ELSE encoded

LookupNames == <<"area", "iz", "analysis", "iz_analysis", "apikey">>

\* set_payload: the result is either an early HttpResponse or the query
\* string; looked is the list of store lookups performed, in order.
Failed(r, looked) == [ok |-> FALSE, resp |-> r, payload |-> <<>>, looked |-> looked, raised |-> FALSE]

set_payload(body) ==
    IF body.kind = "not_json"
    THEN Failed(HttpResponse(<<"Invalid JSON in request body">>, 400), <<>>)
    ELSE IF body.kind = "non_object"
    THEN [ok |-> FALSE, resp |-> NoResp, payload |-> <<>>, looked |-> <<>>, raised |-> TRUE]
    ELSE IF Falsy(Get(body, "iz")) \/ Falsy(Get(body, "analysis"))
    THEN Failed(HttpResponse(<<"Pass iz, and analysis in the request body">>, 400), <<>>)
    ELSE
    LET area == get_area_by_name(AREA_NAME) IN
    IF area = None
    THEN Failed(HttpResponse(<<"Area not found">>, 404), <<"area">>)
    ELSE
    LET iz == get_iz_by_code(Get(body, "iz")) IN
    IF iz = None
    THEN Failed(HttpResponse(<<"IZ not found">>, 404), <<"area", "iz">>)
    ELSE
    LET analysis == get_analysis_by_name(Get(body, "analysis")) IN
    IF analysis = None
    THEN Failed(HttpResponse(<<"Analysis not found">>, 404), <<"area", "iz", "analysis">>)
    ELSE
    LET iz_analysis == get_iz_analysis_by_iz_and_analysis(iz, analysis) IN
    IF iz_analysis = None
    THEN Failed(HttpResponse(<<"Report path not found">>, 404),
                <<"area", "iz", "analysis", "iz_analysis">>)
    ELSE
    LET apikey == get_api_key_by_area_and_iz(area, iz) IN
    IF apikey = None
    THEN Failed(HttpResponse(<<"API key not found">>, 404),
                <<"area", "iz", "analysis", "iz_analysis", "apikey">>)
    ELSE
    LET resume == IF HasField(body, "resume") THEN Get(body, "resume") ELSE None
    IN [ok |-> TRUE, resp |-> NoResp,
        payload |-> with_token(urlencode(iz_analysis, apikey), resume),
        looked |-> <<"area", "iz", "analysis", "iz_analysis", "apikey">>,
        raised |-> FALSE]

\* ------------------------------------------------------------ remote documents
\* A parsed document is what the handler's queries see of it, in document
\* order: the error elements (their text), the xsd:element declarations, the
\* Row elements (each a list of children) and the ResumptionToken elements.
COLUMN0 == <<"Column0">>
COLUMN1 == <<"Column1">>
TITLE == <<"Title">>
CASE_HEADING == <<"CASE  WHEN Provenance Code", " = 'x' THEN 'y' END">>
PROVENANCE == <<"Provenance Code">>

ErrTexts == {<<"X">>, <<"Y">>}
TokenTexts == {EmptyStr, <<"abc123">>}

Decl(n, h) == [name |-> n, heading |-> h]

\* The text of the j-th child of the i-th Row: the code only copies cell
\* text, so documents whose cells all differ tell every child apart.
CellText(i, j) == <<"cell", ToString(i), ToString(j)>>

Kids(i, tags) == [j \in 1..Len(tags) |-> [name |-> tags[j], text |-> CellText(i, j)]]

RowList(shapes) == [i \in 1..Len(shapes) |-> Kids(i, shapes[i])]

Doc(e, d, r, t) == [errors |-> e, decls |-> d, rows |-> r, tokens |-> t]

NoDoc == Doc(<<>>, <<>>, <<>>, <<>>)

\* Documents served to the handler: any error and token elements, one
\* declared column, rows of the shape Column0, Column1.
Docs ==
    {Doc(e, d, RowList(r), t) :
        e \in SeqsUpTo(ErrTexts, MaxErrors),
        d \in SeqsUpTo({Decl(COLUMN1, TITLE)}, MaxCols),
        r \in SeqsUpTo({<<COLUMN0, COLUMN1>>}, MaxRows),
        t \in SeqsUpTo(TokenTexts, MaxTokens)}

\* --------------------------------------------------------------- remote caller
\* What requests.get can do: raise a RequestException, or return a response
\* with a status code and a body.
Outcomes ==
    {[kind |-> "exception", error |-> e, status |-> 0, content |-> NoDoc] :
        e \in {<<"ConnectionError">>, <<"ReadTimeout">>}}
    \cup {[kind |-> "http", error |-> <<>>, status |-> s, content |-> NoDoc] : s \in {404, 500}}
    \cup {[kind |-> "http", error |-> <<>>, status |-> s, content |-> d] :
            s \in {200, 304}, d \in Docs}

NoResponse == [kind |-> "none", error |-> <<>>, status |-> 0, content |-> NoDoc]

\* Response.raise_for_status raises HTTPError for 4xx and 5xx.
raise_for_status(r) ==
    IF 400 <= r.status /\ r.status < 500 THEN <<"Client Error">>
    ELSE IF 500 <= r.status /\ r.status < 600 THEN <<"Server Error">>
    ELSE None

Value(v) == [isresp |-> FALSE, resp |-> NoResp, value |-> v]
Early(r) == [isresp |-> TRUE, resp |-> r, value |-> <<>>]

make_api_call_unchecked(out) ==
    IF out.kind = "exception"
    THEN Early(HttpResponse(<<"API call failed: ">> \o out.error, 500))
    ELSE Value(out)

make_api_call(out) ==
    IF out.kind = "exception"
    THEN Early(HttpResponse(<<"API call failed: ">> \o out.error, 500))
    ELSE IF raise_for_status(out) # None
    THEN Early(HttpResponse(<<"API call failed: ">> \o raise_for_status(out), 500))
    ELSE Value(out)

\* ---------------------------------------------------------- response transformer
\* bool(soup): a BeautifulSoup object is truthy whatever it holds.
Truthy(tag) == TRUE

\* soup.find(name): the first element of that name, or None.
Find(elements) == IF elements = <<>> THEN None ELSE Head(elements)

get_soup_unchecked(r) ==
    LET parsed == r.content IN
    IF ~Truthy(parsed)
    THEN Early(HttpResponse(<<"Empty or invalid XML response">>, 404))
    ELSE Value(parsed)

get_soup(r) ==
    LET parsed == r.content IN
    IF ~Truthy(parsed)
    THEN Early(HttpResponse(<<"Empty or invalid XML response">>, 404))
    ELSE IF parsed.errors # <<>>
    THEN Early(HttpResponse(<<"Error: ">> \o Find(parsed.errors), 500))
    ELSE Value(parsed)

EmptyDict == [k \in {} |-> <<>>]

Put(d, k, v) == [x \in DOMAIN d \cup {k} |-> IF x = k THEN v ELSE d[x]]

RECURSIVE ColumnDict(_, _)
ColumnDict(columnlist, acc) ==
    IF columnlist = <<>> THEN acc
    ELSE LET column == Head(columnlist)
             heading == IF Contains(column.heading, <<"CASE  WHEN Provenance Code">>)
                        THEN PROVENANCE ELSE column.heading
         IN ColumnDict(Tail(columnlist), Put(acc, column.name, heading))

get_columns(parsed) ==
    LET columnlist == parsed.decls IN
    IF columnlist = <<>>
    THEN Early(HttpResponse(<<"No columns found">>, 404))
    ELSE Value(ColumnDict(columnlist, EmptyDict))

RECURSIVE RowValues_KeepColumn0(_, _, _)
RowValues_KeepColumn0(kids, cols, values) ==
    IF kids = <<>> THEN values
    ELSE LET kid == Head(kids) IN
         IF kid.name \in DOMAIN cols
         THEN RowValues_KeepColumn0(Tail(kids), cols, Put(values, cols[kid.name], kid.text))
         ELSE RowValues_KeepColumn0(Tail(kids), cols, Put(values, kid.name, kid.text))

RECURSIVE RowValues(_, _, _)
RowValues(kids, cols, values) ==
    IF kids = <<>> THEN values
    ELSE LET kid == Head(kids) IN
         IF kid.name # COLUMN0
         THEN IF kid.name \in DOMAIN cols
              THEN RowValues(Tail(kids), cols, Put(values, cols[kid.name], kid.text))
              ELSE RowValues(Tail(kids), cols, Put(values, kid.name, kid.text))
         ELSE RowValues(Tail(kids), cols, values)

get_rows_unchecked(parsed, cols) ==
    LET rowlist == parsed.rows IN
    Value([i \in 1..Len(rowlist) |-> RowValues(rowlist[i], cols, EmptyDict)])

get_rows_reversed(parsed, cols) ==
    LET rowlist == parsed.rows IN
    IF rowlist = <<>>
    THEN Early(HttpResponse(<<"No rows found">>, 404))
    ELSE Value([i \in 1..Len(rowlist) |->
                    RowValues(rowlist[Len(rowlist) + 1 - i], cols, EmptyDict)])

get_rows(parsed, cols) ==
    LET rowlist == parsed.rows IN
    IF rowlist = <<>>
    THEN Early(HttpResponse(<<"No rows found">>, 404))
    ELSE Value([i \in 1..Len(rowlist) |-> RowValues(rowlist[i], cols, EmptyDict)])

success_text_truthy(parsed, rowvalues) ==
    LET resume_data == Find(parsed.tokens) IN
    [status |-> 200, body |-> <<>>,
     json |-> [status |-> "success",
               data |-> [resume |-> IF resume_data # None /\ resume_data # EmptyStr
                                    THEN resume_data ELSE None,
                         rows |-> rowvalues]]]

\* The success envelope of httpalmaanalytics.
success(parsed, rowvalues) ==
    LET resume_data == Find(parsed.tokens) IN
    [status |-> 200, body |-> <<>>,
     json |-> [status |-> "success",
               data |-> [resume |-> IF resume_data # None /\ Truthy(resume_data)
                                    THEN resume_data ELSE None,
                         rows |-> rowvalues]]]

\* ------------------------------------------------------------------- the handler
Idle ==
    /\ pc = "idle"
    /\ req = [kind |-> "none", fields |-> NoFields]
    /\ lookups = <<>>
    /\ payload = <<>>
    /\ calls = 0
    /\ response = NoResponse
    /\ soup = NoDoc
    /\ columns = EmptyDict
    /\ rows = <<>>
    /\ resp = NoResp
    /\ steps = <<>>

Init == Idle /\ store \in Stores

Receive ==
    /\ pc = "idle"
    /\ \E b \in Bodies : req' = b
    /\ pc' = "set_payload"
    /\ UNCHANGED <<store, lookups, payload, calls, response, soup, columns, rows, resp, steps>>

SetPayload_NoEarlyReturn ==
    /\ pc = "set_payload"
    /\ LET r == set_payload(req) IN
        /\ lookups' = r.looked
        /\ payload' = r.payload
        /\ resp' = r.resp
        /\ pc' = IF r.raised THEN "raised" ELSE "make_api_call"
    /\ steps' = Append(steps, "set_payload")
    /\ UNCHANGED <<store, req, calls, response, soup, columns, rows>>

SetPayload ==
    /\ pc = "set_payload"
    /\ LET r == set_payload(req) IN
        /\ lookups' = r.looked
        /\ payload' = r.payload
        /\ resp' = r.resp
        /\ pc' = IF r.raised THEN "raised" ELSE IF r.ok THEN "make_api_call" ELSE "done"
    /\ steps' = Append(steps, "set_payload")
    /\ UNCHANGED <<store, req, calls, response, soup, columns, rows>>

MakeApiCall_Retry ==
    /\ pc = "make_api_call"
    /\ calls' = calls + 1
    /\ \E out \in Outcomes :
        LET r == make_api_call(out) IN
        /\ response' = out
        /\ resp' = r.resp
        /\ pc' = IF out.kind = "exception" THEN "make_api_call"
                 ELSE IF r.isresp THEN "done" ELSE "get_soup"
    /\ steps' = Append(steps, "make_api_call")
    /\ UNCHANGED <<store, req, lookups, payload, soup, columns, rows>>

MakeApiCall ==
    /\ pc = "make_api_call"
    /\ calls' = calls + 1
    /\ \E out \in Outcomes :
        LET r == make_api_call(out) IN
        /\ response' = out
        /\ resp' = r.resp
        /\ pc' = IF r.isresp THEN "done" ELSE "get_soup"
    /\ steps' = Append(steps, "make_api_call")
    /\ UNCHANGED <<store, req, lookups, payload, soup, columns, rows>>

GetSoup ==
    /\ pc = "get_soup"
    /\ LET r == get_soup(response) IN
        /\ resp' = r.resp
        /\ soup' = IF r.isresp THEN NoDoc ELSE r.value
        /\ pc' = IF r.isresp THEN "done" ELSE "get_columns"
    /\ steps' = Append(steps, "get_soup")
    /\ UNCHANGED <<store, req, lookups, payload, calls, response, columns, rows>>

GetColumns ==
    /\ pc = "get_columns"
    /\ LET r == get_columns(soup) IN
        /\ resp' = r.resp
        /\ columns' = IF r.isresp THEN EmptyDict ELSE r.value
        /\ pc' = IF r.isresp THEN "done" ELSE "get_rows"
    /\ steps' = Append(steps, "get_columns")
    /\ UNCHANGED <<store, req, lookups, payload, calls, response, soup, rows>>

GetRows ==
    /\ pc = "get_rows"
    /\ LET r == get_rows(soup, columns) IN
        /\ resp' = r.resp
        /\ rows' = IF r.isresp THEN <<>> ELSE r.value
        /\ pc' = IF r.isresp THEN "done" ELSE "respond"
    /\ steps' = Append(steps, "get_rows")
    /\ UNCHANGED <<store, req, lookups, payload, calls, response, soup, columns>>

Respond ==
    /\ pc = "respond"
    /\ resp' = success(soup, rows)
    /\ pc' = "done"
    /\ steps' = Append(steps, "respond")
    /\ UNCHANGED <<store, req, lookups, payload, calls, response, soup, columns, rows>>

\* The invocation is over; the stateless function is ready for the next one.
Finish ==
    /\ pc \in {"done", "raised"}
    /\ pc' = "idle"
    /\ req' = [kind |-> "none", fields |-> NoFields]
    /\ lookups' = <<>>
    /\ payload' = <<>>
    /\ calls' = 0
    /\ response' = NoResponse
    /\ soup' = NoDoc
    /\ columns' = EmptyDict
    /\ rows' = <<>>
    /\ resp' = NoResp
    /\ steps' = <<>>
    /\ UNCHANGED store

Next ==
    \/ Receive
    \/ SetPayload
    \/ MakeApiCall
    \/ GetSoup
    \/ GetColumns
    \/ GetRows
    \/ Respond
    \/ Finish

Spec == Init /\ [][Next]_vars

\* ------------------------------------------------------ extraction on its own
\* The handler from the point where a document without error elements has
\* been fetched and parsed, for documents with any column declarations and
\* any rows.
ColumnNames == {COLUMN0, COLUMN1}

Declarations == {Decl(COLUMN0, TITLE), Decl(COLUMN1, TITLE), Decl(COLUMN1, CASE_HEADING)}

ReportDocs ==
    {Doc(<<>>, d, RowList(r), <<>>) :
        d \in SeqsUpTo(Declarations, MaxCols),
        r \in SeqsUpTo(SeqsUpTo(ColumnNames, MaxKids), MaxRows)}

FullStore ==
    [areas |-> {AREA_NAME}, izs |-> {IZ_AU}, analyses |-> {AN_LOANS},
     izanalysis |-> [p \in {<<IZ_AU, AN_LOANS>>} |-> REPORT_PATH],
     apikeys |-> [p \in {<<AREA_NAME, IZ_AU>>} |-> API_KEY]]

InitRows ==
    /\ store = FullStore
    /\ req = [kind |-> "object",
              fields |-> [iz |-> IZ_AU, analysis |-> AN_LOANS, resume |-> NoField]]
    /\ lookups = LookupNames
    /\ payload = set_payload(req).payload
    /\ calls = 1
    /\ \E d \in ReportDocs :
        /\ response = [kind |-> "http", error |-> <<>>, status |-> 200, content |-> d]
        /\ soup = d
    /\ columns = EmptyDict
    /\ rows = <<>>
    /\ resp = NoResp
    /\ steps = <<"set_payload", "make_api_call", "get_soup">>
    /\ pc = "get_columns"

NextRows ==
    \/ GetColumns
    \/ GetRows
    \/ Respond

SpecRows == InitRows /\ [][NextRows]_vars

\* ===================================================================== claims
LookupOrder == <<"area", "iz", "analysis", "iz_analysis", "apikey">>

\* The body passed validation: an object with truthy iz and analysis.
Validated(b) ==
    b.kind = "object" /\ ~Falsy(Get(b, "iz")) /\ ~Falsy(Get(b, "analysis"))

\* The i-th lookup of LookupOrder finds no record for the request's keys.
Absent(b, i) ==
    LET pair == <<Get(b, "iz"), Get(b, "analysis")>>
        owner == <<AREA_NAME, Get(b, "iz")>>
    IN CASE i = 1 -> AREA_NAME \notin store.areas
         [] i = 2 -> Get(b, "iz") \notin store.izs
         [] i = 3 -> Get(b, "analysis") \notin store.analyses
         [] i = 4 -> pair \notin DOMAIN store.izanalysis \/ store.izanalysis[pair] = None
         [] i = 5 -> owner \notin DOMAIN store.apikeys \/ store.apikeys[owner] = None

SomeAbsent(b) == \E i \in 1..5 : Absent(b, i)

FirstAbsent(b) == CHOOSE i \in 1..5 : Absent(b, i) /\ \A j \in 1..(i - 1) : ~Absent(b, j)

Returned == pc = "done"

Ended == pc \in {"done", "raised"}

\* The request body is rejected by validation: unparseable, or without a
\* truthy iz and a truthy analysis.
BadBody(b) == b.kind # "none" /\ ~Validated(b)

\* C1: a request whose body is unparseable, or lacks iz or analysis or has a
\* falsy value for either, is answered 400 with no configuration lookup and
\* no outbound call.
C1_BadBodyIs400 ==
    (Ended /\ BadBody(req)) => (resp.status = 400 /\ lookups = <<>> /\ calls = 0)

\* C2: a validated request with an absent lookup is answered 404, never
\* issues an outbound call, and performs the lookups in the fixed order up
\* to and including the first absent one, none after it.
C2_AbsentLookupIs404 ==
    (Validated(req) /\ SomeAbsent(req)) =>
        /\ calls = 0
        /\ "make_api_call" \notin {steps[k] : k \in 1..Len(steps)}
        /\ Returned =>
            /\ resp.status = 404
            /\ lookups = SubSeq(LookupOrder, 1, FirstAbsent(req))

C2_Witness ==
    /\ Returned /\ Validated(req)
    /\ resp.status = 404
    /\ lookups = <<"area", "iz", "analysis", "iz_analysis">>
    /\ Absent(req, 4) /\ ~Absent(req, 3)

\* C3: a request for which a query string is built has issued exactly one
\* outbound GET by the time its response is returned, and no request ever
\* issues a second one.
C3_ExactlyOneCall ==
    /\ calls <= 1
    /\ (Returned /\ Validated(req) /\ ~SomeAbsent(req)) => calls = 1

C3_Witness ==
    /\ Returned /\ calls = 1
    /\ response.kind = "exception"
    /\ resp.status = 500

\* The later steps of the pipeline.
LaterSteps == {"get_soup", "get_columns", "get_rows", "respond"}

NoLaterStep == \A k \in 1..Len(steps) : steps[k] \notin LaterSteps

\* C4 as stated: a transport failure or any non-2xx status gives 500 with
\* the error text and none of the later steps.
C4_Non2xxIs500 ==
    (response.kind = "exception" \/
        (response.kind = "http" /\ ~(200 <= response.status /\ response.status < 300))) =>
        (Returned => (resp.status = 500 /\ NoLaterStep))

\* C4 amended: a transport failure or a 4xx/5xx status gives 500 with a body
\* carrying the error text, and none of the later steps runs.
C4_FailureIs500 ==
    (response.kind = "exception" \/
        (response.kind = "http" /\ 400 <= response.status /\ response.status < 600)) =>
        /\ Returned /\ resp.status = 500 /\ NoLaterStep
        /\ response.kind = "exception" => resp.body = <<"API call failed: ">> \o response.error
        /\ (response.kind = "http" /\ response.status < 500) =>
                Contains(resp.body, <<"Client Error">>)
        /\ (response.kind = "http" /\ response.status >= 500) =>
                Contains(resp.body, <<"Server Error">>)

C4_Witness ==
    /\ Returned /\ response.kind = "http" /\ response.status = 404
    /\ resp.status = 500 /\ calls = 1

\* make_api_call returned the remote response: a document was fetched.
Fetched == response.kind = "http" /\ response.status < 400

Document == response.content

\* C5 as stated: for every error element of a fetched document, the
\* response is 500 and its body contains that element's text.
C5_EveryErrorText ==
    (Returned /\ Fetched) =>
        \A k \in 1..Len(Document.errors) :
            resp.status = 500 /\ Contains(resp.body, Document.errors[k])

\* C5 amended: a fetched document with an error element is answered 500
\* with a body containing the text of the first error element, before any
\* column or row extraction, whatever declarations and rows it has.
C5_FirstErrorText ==
    (Fetched /\ Document.errors # <<>>) =>
        /\ "get_columns" \notin {steps[k] : k \in 1..Len(steps)}
        /\ "get_rows" \notin {steps[k] : k \in 1..Len(steps)}
        /\ Returned => (resp.status = 500 /\ Contains(resp.body, Document.errors[1]))

C5_Witness ==
    /\ Returned /\ Fetched
    /\ Len(Document.errors) = 2 /\ Document.errors[1] # Document.errors[2]
    /\ Document.decls # <<>> /\ Document.rows # <<>>
    /\ resp.status = 500

\* C6 as stated: a fetched document without an error element and with zero
\* Row elements is answered 404 "No rows found".
C6_NoRowsBody ==
    (Returned /\ Fetched /\ Document.errors = <<>> /\ Document.rows = <<>>) =>
        (resp.status = 404 /\ resp.body = <<"No rows found">>)

\* C6 amended: such a document is answered 404, with "No rows found" when it
\* has a column declaration and "No columns found" when it has none.
C6_NoRowsIs404 ==
    (Returned /\ Fetched /\ Document.errors = <<>> /\ Document.rows = <<>>) =>
        /\ resp.status = 404
        /\ resp.body = IF Document.decls = <<>> THEN <<"No columns found">>
                       ELSE <<"No rows found">>

C6_Witness ==
    /\ Returned /\ Fetched /\ Document.errors = <<>>
    /\ Document.decls # <<>> /\ Document.rows = <<>>
    /\ resp.body = <<"No rows found">>

\* The document takes the handler down the success path.
SuccessPath ==
    Fetched /\ Document.errors = <<>> /\ Document.decls # <<>> /\ Document.rows # <<>>

\* C7: on the success path the status is 200, data.resume is the text of the
\* ResumptionToken element when there is one, and null exactly when there is
\* none.
C7_ResumeIsTokenText ==
    (Returned /\ SuccessPath) =>
        /\ resp.status = 200 /\ resp.json.status = "success"
        /\ Document.tokens # <<>> => resp.json.data.resume = Document.tokens[1]
        /\ resp.json.data.resume = None <=> Document.tokens = <<>>

C7_Witness ==
    /\ Returned /\ SuccessPath
    /\ Document.tokens = <<EmptyStr>>
    /\ resp.json.data.resume = EmptyStr

\* The keys of a query string, and the value of one of them.
KeyAt(q, i) == (i = 1 \/ q[i - 1] = "&") /\ i < Len(q) /\ q[i + 1] = "="

Keys(q) == {q[i] : i \in {j \in 1..Len(q) : KeyAt(q, j)}}

ValueOf(q, key) ==
    LET i == CHOOSE j \in 1..Len(q) : KeyAt(q, j) /\ q[j] = key
        stops == {j \in (i + 2)..Len(q) : q[j] = "&"}
        end == IF stops = {} THEN Len(q)
               ELSE (CHOOSE j \in stops : \A m \in stops : j <= m) - 1
    IN SubSeq(q, i + 2, end)

FixedParams(q) ==
    /\ {"path", "apikey", "limit", "col_names"} \subseteq Keys(q)
    /\ ValueOf(q, "limit") = <<"1", "0", "0", "0">>
    /\ ValueOf(q, "col_names") = <<"true">>

\* C10 as stated: the query string carries the fixed parameters, and a
\* token key exactly when the body has a resume field.
C10_TokenIffField ==
    payload # <<>> =>
        /\ FixedParams(payload)
        /\ "token" \in Keys(payload) <=> HasField(req, "resume")

\* C10 amended: the query string carries the fixed parameters, and a token
\* key exactly when the body has a resume field with a truthy value; the
\* token's value is then that value unmodified.
C10_TokenIffTruthy ==
    payload # <<>> =>
        /\ FixedParams(payload)
        /\ "token" \in Keys(payload) <=>
                (HasField(req, "resume") /\ req.fields.resume \notin {None, EmptyStr})
        /\ "token" \in Keys(payload) => ValueOf(payload, "token") = req.fields.resume

C10_Witness ==
    /\ payload # <<>>
    /\ "token" \in Keys(payload)
    /\ ValueOf(payload, "token") = RESUME_TOK

\* get_rows has produced the row list of a document with at least one Row.
Extracted ==
    /\ pc \in {"respond", "done"} /\ soup.rows # <<>>
    /\ steps # <<>> /\ steps[Len(steps)] \in {"get_rows", "respond"}

\* The rows extracted, and those sent in the success envelope.
RowsOut == IF pc = "done" THEN resp.json.data.rows ELSE rows

Children(i) == soup.rows[i]

\* The header a child's tag name resolves to: the column map's value for it,
\* or the tag name itself when the map has no entry.
Header(name) == IF name \in DOMAIN columns THEN columns[name] ELSE name

\* C8: no entry of any output row is derived from a child named Column0,
\* whatever its text and whether or not the column map maps Column0.
C8_Column0Omitted ==
    Extracted =>
        \A i \in 1..Len(RowsOut) : \A h \in DOMAIN RowsOut[i] :
            /\ i <= Len(soup.rows)
            /\ \A j \in 1..Len(Children(i)) :
                Children(i)[j].name = COLUMN0 => RowsOut[i][h] # Children(i)[j].text
            /\ \E j \in 1..Len(Children(i)) :
                /\ Children(i)[j].name # COLUMN0
                /\ Header(Children(i)[j].name) = h
                /\ RowsOut[i][h] = Children(i)[j].text

C8_Witness ==
    /\ Extracted /\ pc = "done"
    /\ COLUMN0 \in DOMAIN columns
    /\ \E i \in 1..Len(soup.rows) :
        /\ \E j \in 1..Len(Children(i)) : Children(i)[j].name = COLUMN0
        /\ DOMAIN RowsOut[i] # {}

\* C9 as stated: one mapping per Row in document order, recording every
\* child other than Column0 under its resolved header.
C9_EveryChildRecorded ==
    Extracted =>
        /\ Len(RowsOut) = Len(soup.rows)
        /\ \A i \in 1..Len(soup.rows) : \A j \in 1..Len(Children(i)) :
            Children(i)[j].name # COLUMN0 =>
                /\ Header(Children(i)[j].name) \in DOMAIN RowsOut[i]
                /\ RowsOut[i][Header(Children(i)[j].name)] = Children(i)[j].text

\* The children of the i-th Row, other than Column0, that resolve to header h.
Resolving(i, h) ==
    {j \in 1..Len(Children(i)) :
        Children(i)[j].name # COLUMN0 /\ Header(Children(i)[j].name) = h}

Last(S) == CHOOSE j \in S : \A k \in S : k <= j

\* C9 amended: one mapping per Row in document order; its keys are the
\* resolved headers of the Row's children other than Column0, and the value
\* under a header is the cell text of the last child resolving to it.
C9_LastChildRecorded ==
    Extracted =>
        /\ Len(RowsOut) = Len(soup.rows)
        /\ \A i \in 1..Len(soup.rows) :
            /\ DOMAIN RowsOut[i] =
                {Header(Children(i)[j].name) :
                    j \in {k \in 1..Len(Children(i)) : Children(i)[k].name # COLUMN0}}
            /\ \A h \in DOMAIN RowsOut[i] :
                RowsOut[i][h] = Children(i)[Last(Resolving(i, h))].text

C9_Witness ==
    /\ Extracted /\ pc = "done"
    /\ Len(soup.rows) = 2
    /\ Children(1) # Children(2)
    /\ \E h \in DOMAIN RowsOut[1] : Cardinality(Resolving(1, h)) = 2
    /\ DOMAIN RowsOut[2] # {}

====
